---- MODULE Spec2Model ----
(***************************************************************************)
(* Model of src/main.rs of the `download` command-line utility: main,      *)
(* http_download and download_with_progress, together with the behaviour   *)
(* of the std::io::BufWriter that main wraps around the destination.       *)
(*                                                                         *)
(* A hash accumulator is modelled by the message it has absorbed so far    *)
(* (update appends, finalize yields a digest value tagged with the         *)
(* algorithm and determined by the absorbed message).                      *)
(***************************************************************************)
EXTENDS Integers, Sequences, FiniteSets, TLC

\* ---------------------------------------------------------------- bounds
\* Longest response body explored.
MaxBody == 3
\* Size of the working buffer `buf` (8192 in main.rs:80), scaled down.
BufSize == 2
\* Capacity of the BufWriter (std's default, 8192), scaled down.
WriterCap == 2
\* The ghost counter of interrupted reads saturates here.
MaxInterrupts == 2

\* ------------------------------------------------------- program constants
EXIT_URL_FAILURE == 1
EXIT_OUTPUT_FAILURE == 2
\* Exit status of a Rust process whose main thread panicked.
EXIT_PANIC == 101
\* exitCode while the process is still running.
RUNNING == -1

\* Body bytes, the byte that stands for the verbose status/header text,
\* and the byte the working buffer is initialised with ([0; 8192]).
Byte == {0, 1}
HeaderByte == 7
ZeroByte == 0

VARIABLES
    pc,            \* position of main: start, responded, loop, flush,
                   \* drop_err, copy, drop_ok, exited
    exitCode,      \* RUNNING, 0, EXIT_URL_FAILURE, EXIT_OUTPUT_FAILURE, EXIT_PANIC
    remote_name,   \* args.is_present("remote-name")
    output,        \* args.value_of("output") is Some
    verbose,       \* args.is_present("verbose")
    uaValid,       \* the user-agent string is a legal header value
    body,          \* the bytes the response body yields before end-of-stream
    contentLength, \* the content-length header: <<>> when absent or unparsable, else <<n>>
    rd,            \* how many body bytes the reader has handed out
    setup,         \* outcome of http_download: none, ok, err, panic
    fileCreated,   \* File::create has created/truncated the destination file
    buf,           \* the working buffer of download_with_progress
    wbuf,          \* bytes held in the BufWriter's internal buffer
    dest,          \* bytes that reached the File / the stdout lock
    n_bytes,       \* total handed to ProgressBar::new
    progress,      \* the progress bar's current count
    written,       \* the `written` counter (u64; no body explored comes near 2^64)
    sha1_hasher,   \* message absorbed by the SHA-1 accumulator
    sha256_hasher, \* message absorbed by the SHA-256 accumulator
    ret,           \* what download_with_progress returned: none, ok, read_err, write_err
    result,        \* the DownloadResult, or NoResult
    printed,       \* the two digest lines have been printed
    passed,        \* ghost: every byte passed to the BufWriter's write_all
    chunkLen,      \* ghost: length of the chunk of the last positive read
    lastRead,      \* ghost: outcome of the last read: none, data, eof, interrupted, fatal
    interrupts,    \* ghost: number of interrupted reads (saturating)
    failures,      \* ghost: the failures met after the response: create, read, write, flush
    sinkFailed     \* ghost: the underlying destination refused a write

vars == <<pc, exitCode, remote_name, output, verbose, uaValid, body, contentLength,
          rd, setup, fileCreated, buf, wbuf, dest, n_bytes, progress, written,
          sha1_hasher, sha256_hasher, ret, result, printed, passed, chunkLen,
          lastRead, interrupts, failures, sinkFailed>>

\* --------------------------------------------------------------- helpers
Min(a, b) == IF a < b THEN a ELSE b

IsPrefix(s, t) == Len(s) <= Len(t) /\ SubSeq(t, 1, Len(s)) = s

Drop(s, k) == SubSeq(s, k + 1, Len(s))

Bodies == UNION {[1..n -> Byte] : n \in 0..MaxBody}

NoResult == [none |-> TRUE]

\* Sha1::new() / Sha256::new()
NewHasher == <<>>

\* A variant of update that absorbs nothing (the claims must rule it out).
HashUpdateSkip(h, chunk) == h

\* Digest::update
HashUpdate(h, chunk) == h \o chunk

\* HEXLOWER.encode(hasher.finalize().as_slice())
Sha1Hex(h) == [alg |-> "sha1", msg |-> h]

Sha256Hex(h) == [alg |-> "sha256", msg |-> h]

\* reader.read(&mut buf) returning Ok(n): the first n cells are overwritten.
FillBuf(b, chunk) == chunk \o Drop(b, Len(chunk))

\* A variant that takes the whole buffer, &buf (the claims must rule it out).
SliceWhole(b, len) == b

\* &buf[..len]
Slice(b, len) == SubSeq(b, 1, len)

\* The lengths a successful read may return when data remains.
ReadLens == 1..Min(BufSize, Len(body) - rd)

\* if args.is_present("remote-name") { get_filename(..) } else { args.value_of("output") }
\* (rsplit('/').next() is always Some)
OutputPathIsSome == remote_name \/ output

\* ------------------------------------------------------ std::io::BufWriter
\* Outcomes of writing `data` to the underlying destination with write_all:
\* all of it, or a failure after a proper prefix was taken.
InnerWriteAll(d, data) ==
    {[ok |-> TRUE, dest |-> d \o data]} \cup
    {[ok |-> FALSE, dest |-> d \o SubSeq(data, 1, k)] : k \in 0..(Len(data) - 1)}

\* BufWriter::flush_buf: the written prefix leaves the buffer, the rest stays.
FlushBuf(w, d) ==
    {[ok |-> TRUE, wbuf |-> <<>>, dest |-> d \o w]} \cup
    {[ok |-> FALSE, wbuf |-> Drop(w, k), dest |-> d \o SubSeq(w, 1, k)] :
        k \in 0..(Len(w) - 1)}

\* BufWriter::write_all: buffer the data when it fits; otherwise flush first
\* when it exceeds the spare capacity, and bypass the buffer when the data
\* is at least as long as the capacity.
WriteAll(w, d, data) ==
    IF Len(data) < WriterCap - Len(w)
    THEN {[ok |-> TRUE, wbuf |-> w \o data, dest |-> d]}
    ELSE LET flushed == IF Len(data) > WriterCap - Len(w)
                        THEN FlushBuf(w, d)
                        ELSE {[ok |-> TRUE, wbuf |-> w, dest |-> d]}
         IN UNION {
              IF ~f.ok THEN {f}
              ELSE IF Len(data) >= WriterCap
                   THEN {[ok |-> i.ok, wbuf |-> f.wbuf, dest |-> i.dest] :
                            i \in InnerWriteAll(f.dest, data)}
                   ELSE {[ok |-> TRUE, wbuf |-> f.wbuf \o data, dest |-> f.dest]}
              : f \in flushed}

\* process::exit(code) / return from main
Exit(code) == pc' = "exited" /\ exitCode' = code

\* ------------------------------------------------------------------ Init
Init ==
    /\ pc = "start"
    /\ exitCode = RUNNING
    /\ remote_name \in BOOLEAN
    /\ output \in BOOLEAN
    /\ verbose \in BOOLEAN
    /\ uaValid \in BOOLEAN
    /\ body \in Bodies
    /\ contentLength \in {<<>>, <<Len(body)>>}
    /\ rd = 0
    /\ setup = "none"
    /\ fileCreated = FALSE
    /\ buf = [i \in 1..BufSize |-> ZeroByte]
    /\ wbuf = <<>>
    /\ dest = <<>>
    /\ n_bytes = 0
    /\ progress = 0
    /\ written = 0
    /\ sha1_hasher = NewHasher
    /\ sha256_hasher = NewHasher
    /\ ret = "none"
    /\ result = NoResult
    /\ printed = FALSE
    /\ passed = <<>>
    /\ chunkLen = 0
    /\ lastRead = "none"
    /\ interrupts = 0
    /\ failures = {}
    /\ sinkFailed = FALSE

args == <<remote_name, output, verbose, uaValid, body, contentLength>>

transfer == <<rd, buf, wbuf, dest, n_bytes, progress, written, sha1_hasher,
              sha256_hasher, ret, result, printed, passed, chunkLen, lastRead,
              interrupts, sinkFailed>>

\* ------------------------------------------------- http_download and main's
\* unwrap_or_else around it
\* Client::builder()...build()? fails: main prints the error and exits.
HttpDownloadBuildFail ==
    /\ pc = "start"
    /\ setup' = "err"
    /\ Exit(EXIT_URL_FAILURE)
    /\ UNCHANGED <<args, transfer, fileCreated, failures>>

\* HeaderValue::from_str(user_agent).unwrap() on an illegal value: a panic.
HttpDownloadBadUserAgent ==
    /\ pc = "start"
    /\ ~uaValid
    /\ setup' = "panic"
    /\ Exit(EXIT_PANIC)
    /\ UNCHANGED <<args, transfer, fileCreated, failures>>

\* A variant in which the destination file is created before the request is
\* sent (the claims must rule it out).
HttpDownloadSendFailAfterCreate ==
    /\ pc = "start"
    /\ uaValid
    /\ setup' = "err"
    /\ fileCreated' = TRUE
    /\ Exit(EXIT_URL_FAILURE)
    /\ UNCHANGED <<args, transfer, failures>>

\* send()? fails (DNS, connection, TLS, too many redirects).
HttpDownloadSendFail ==
    /\ pc = "start"
    /\ uaValid
    /\ setup' = "err"
    /\ Exit(EXIT_URL_FAILURE)
    /\ UNCHANGED <<args, transfer, fileCreated, failures>>

HttpDownloadOk ==
    /\ pc = "start"
    /\ uaValid
    /\ setup' = "ok"
    /\ pc' = "responded"
    /\ UNCHANGED <<exitCode, args, transfer, fileCreated, failures>>

\* ------------------------------------------------------ main, file branch
\* File::create(file_path) fails: map_err prints and exits.
FileCreateFail ==
    /\ pc = "responded"
    /\ OutputPathIsSome
    /\ failures' = failures \cup {"create"}
    /\ Exit(EXIT_OUTPUT_FAILURE)
    /\ UNCHANGED <<args, transfer, setup, fileCreated>>

\* File::create succeeds; the closure builds the BufWriter and the progress
\* bar and enters download_with_progress (lines 80-83).
FileCreateOk ==
    /\ pc = "responded"
    /\ OutputPathIsSome
    /\ fileCreated' = TRUE
    /\ dest' = <<>>
    /\ wbuf' = <<>>
    /\ n_bytes' = IF contentLength = <<>> THEN 0 ELSE contentLength[1]
    /\ progress' = 0
    /\ buf' = [i \in 1..BufSize |-> ZeroByte]
    /\ written' = 0
    /\ sha1_hasher' = NewHasher
    /\ sha256_hasher' = NewHasher
    /\ pc' = "loop"
    /\ UNCHANGED <<exitCode, args, setup, rd, ret, result, printed, passed,
                   chunkLen, lastRead, interrupts, failures, sinkFailed>>

\* ------------------------------------------------ download_with_progress
\* Ok(0): finalize both hashers and return the DownloadResult.
ReadEof ==
    /\ pc = "loop"
    /\ rd = Len(body)
    /\ result' = [bytes_written |-> written,
                  sha1 |-> Sha1Hex(sha1_hasher),
                  sha256 |-> Sha256Hex(sha256_hasher)]
    /\ ret' = "ok"
    /\ lastRead' = "eof"
    /\ pc' = "flush"
    /\ UNCHANGED <<exitCode, args, setup, fileCreated, rd, buf, wbuf, dest,
                   n_bytes, progress, written, sha1_hasher, sha256_hasher,
                   printed, passed, chunkLen, interrupts, failures, sinkFailed>>

\* Ok(len), write_all succeeds: hash, advance the progress bar, count.
ReadData ==
    /\ pc = "loop"
    /\ \E n \in ReadLens :
         LET b2 == FillBuf(buf, SubSeq(body, rd + 1, rd + n))
             chunk == Slice(b2, n)
         IN \E o \in WriteAll(wbuf, dest, chunk) :
              /\ o.ok
              /\ buf' = b2
              /\ rd' = rd + n
              /\ wbuf' = o.wbuf
              /\ dest' = o.dest
              /\ passed' = passed \o chunk
              /\ sha1_hasher' = HashUpdate(sha1_hasher, chunk)
              /\ sha256_hasher' = HashUpdate(sha256_hasher, chunk)
              /\ progress' = progress + n
              /\ written' = written + n
              /\ chunkLen' = n
    /\ lastRead' = "data"
    /\ UNCHANGED <<pc, exitCode, args, setup, fileCreated, n_bytes, ret, result,
                   printed, interrupts, failures, sinkFailed>>

\* Ok(len), write_all fails: `?` returns the error at once.
ReadDataWriteFail ==
    /\ pc = "loop"
    /\ \E n \in ReadLens :
         LET b2 == FillBuf(buf, SubSeq(body, rd + 1, rd + n))
             chunk == Slice(b2, n)
         IN \E o \in WriteAll(wbuf, dest, chunk) :
              /\ ~o.ok
              /\ buf' = b2
              /\ rd' = rd + n
              /\ wbuf' = o.wbuf
              /\ dest' = o.dest
              /\ passed' = passed \o chunk
              /\ chunkLen' = n
    /\ sinkFailed' = TRUE
    /\ failures' = failures \cup {"write"}
    /\ ret' = "write_err"
    /\ lastRead' = "data"
    /\ pc' = "drop_err"
    /\ UNCHANGED <<exitCode, args, setup, fileCreated, n_bytes, progress, written,
                   sha1_hasher, sha256_hasher, result, printed, interrupts>>

\* Err(Interrupted) handled as a fatal error (a variant the claims must rule out).
ReadInterruptedAsError ==
    /\ pc = "loop"
    /\ ret' = "read_err"
    /\ failures' = failures \cup {"read"}
    /\ lastRead' = "interrupted"
    /\ interrupts' = Min(interrupts + 1, MaxInterrupts)
    /\ pc' = "drop_err"
    /\ UNCHANGED <<exitCode, args, setup, fileCreated, rd, buf, wbuf, dest,
                   n_bytes, progress, written, sha1_hasher, sha256_hasher,
                   result, printed, passed, chunkLen, sinkFailed>>

\* Err(Interrupted) handled as end-of-stream (a variant the claims must rule out).
ReadInterruptedAsEof ==
    /\ pc = "loop"
    /\ result' = [bytes_written |-> written,
                  sha1 |-> Sha1Hex(sha1_hasher),
                  sha256 |-> Sha256Hex(sha256_hasher)]
    /\ ret' = "ok"
    /\ lastRead' = "interrupted"
    /\ interrupts' = Min(interrupts + 1, MaxInterrupts)
    /\ pc' = "flush"
    /\ UNCHANGED <<exitCode, args, setup, fileCreated, rd, buf, wbuf, dest,
                   n_bytes, progress, written, sha1_hasher, sha256_hasher,
                   printed, passed, chunkLen, failures, sinkFailed>>

\* Err(e) with e.kind() == Interrupted: continue.
ReadInterrupted ==
    /\ pc = "loop"
    /\ lastRead' = "interrupted"
    /\ interrupts' = Min(interrupts + 1, MaxInterrupts)
    /\ UNCHANGED <<pc, exitCode, args, setup, fileCreated, rd, buf, wbuf, dest,
                   n_bytes, progress, written, sha1_hasher, sha256_hasher, ret,
                   result, printed, passed, chunkLen, failures, sinkFailed>>

\* Err(e), any other kind, returning what was accumulated so far (a variant
\* the claims must rule out).
ReadFatalPartialResult ==
    /\ pc = "loop"
    /\ ret' = "read_err"
    /\ result' = [bytes_written |-> written,
                  sha1 |-> Sha1Hex(sha1_hasher),
                  sha256 |-> Sha256Hex(sha256_hasher)]
    /\ failures' = failures \cup {"read"}
    /\ lastRead' = "fatal"
    /\ pc' = "drop_err"
    /\ UNCHANGED <<exitCode, args, setup, fileCreated, rd, buf, wbuf, dest,
                   n_bytes, progress, written, sha1_hasher, sha256_hasher,
                   printed, passed, chunkLen, interrupts, sinkFailed>>

\* Err(e), any other kind: return Err(e).
ReadFatal ==
    /\ pc = "loop"
    /\ ret' = "read_err"
    /\ failures' = failures \cup {"read"}
    /\ lastRead' = "fatal"
    /\ pc' = "drop_err"
    /\ UNCHANGED <<exitCode, args, setup, fileCreated, rd, buf, wbuf, dest,
                   n_bytes, progress, written, sha1_hasher, sha256_hasher,
                   result, printed, passed, chunkLen, interrupts, sinkFailed>>

\* ------------------------------------- main, file branch, after the loop
\* writer.flush()? succeeds: the digest lines are printed, the closure
\* returns Ok(()), the (empty) writer is dropped and main returns.
FlushOk ==
    /\ pc = "flush"
    /\ \E o \in FlushBuf(wbuf, dest) :
         /\ o.ok
         /\ wbuf' = o.wbuf
         /\ dest' = o.dest
    /\ printed' = TRUE
    /\ Exit(0)
    /\ UNCHANGED <<args, setup, fileCreated, rd, buf, n_bytes, progress, written,
                   sha1_hasher, sha256_hasher, ret, result, passed, chunkLen,
                   lastRead, interrupts, failures, sinkFailed>>

\* writer.flush()? fails: the closure returns the error.
FlushFail ==
    /\ pc = "flush"
    /\ \E o \in FlushBuf(wbuf, dest) :
         /\ ~o.ok
         /\ wbuf' = o.wbuf
         /\ dest' = o.dest
    /\ sinkFailed' = TRUE
    /\ failures' = failures \cup {"flush"}
    /\ pc' = "drop_err"
    /\ UNCHANGED <<exitCode, args, setup, fileCreated, rd, buf, n_bytes, progress,
                   written, sha1_hasher, sha256_hasher, ret, result, printed,
                   passed, chunkLen, lastRead, interrupts>>

\* The closure returned Err: its BufWriter is dropped (flush_buf, the
\* result ignored), then map_err prints the error and exits.
DropErr ==
    /\ pc = "drop_err"
    /\ \E o \in FlushBuf(wbuf, dest) :
         /\ wbuf' = o.wbuf
         /\ dest' = o.dest
         /\ sinkFailed' = (sinkFailed \/ ~o.ok)
         /\ failures' = IF o.ok THEN failures ELSE failures \cup {"flush"}
    /\ Exit(EXIT_OUTPUT_FAILURE)
    /\ UNCHANGED <<args, setup, fileCreated, rd, buf, n_bytes, progress, written,
                   sha1_hasher, sha256_hasher, ret, result, printed, passed,
                   chunkLen, lastRead, interrupts>>

\* ---------------------------------------------------- main, stdout branch
\* BufWriter::new(stdout.lock()); with --verbose the status line and the
\* headers go through the writer, write errors ignored (`let _ =`).
StdoutBegin ==
    /\ pc = "responded"
    /\ ~OutputPathIsSome
    /\ IF verbose
       THEN \E o1 \in WriteAll(<<>>, <<>>, <<HeaderByte>>) :
              \E o2 \in WriteAll(o1.wbuf, o1.dest, <<HeaderByte>>) :
                 /\ wbuf' = o2.wbuf
                 /\ dest' = o2.dest
                 /\ sinkFailed' = (sinkFailed \/ ~o1.ok \/ ~o2.ok)
                 /\ passed' = <<HeaderByte, HeaderByte>>
       ELSE /\ wbuf' = <<>>
            /\ dest' = <<>>
            /\ passed' = <<>>
            /\ UNCHANGED sinkFailed
    /\ pc' = "copy"
    /\ UNCHANGED <<exitCode, args, setup, fileCreated, rd, buf, n_bytes, progress,
                   written, sha1_hasher, sha256_hasher, ret, result, printed,
                   chunkLen, lastRead, interrupts, failures>>

\* io::copy: a read returns Ok(0), copy returns Ok.
CopyEof ==
    /\ pc = "copy"
    /\ rd = Len(body)
    /\ lastRead' = "eof"
    /\ pc' = "drop_ok"
    /\ UNCHANGED <<exitCode, args, setup, fileCreated, rd, buf, wbuf, dest,
                   n_bytes, progress, written, sha1_hasher, sha256_hasher, ret,
                   result, printed, passed, chunkLen, interrupts, failures,
                   sinkFailed>>

\* io::copy: a chunk is read and written to the BufWriter.
CopyData ==
    /\ pc = "copy"
    /\ \E n \in ReadLens :
         LET chunk == SubSeq(body, rd + 1, rd + n)
         IN \E o \in WriteAll(wbuf, dest, chunk) :
              /\ o.ok
              /\ rd' = rd + n
              /\ wbuf' = o.wbuf
              /\ dest' = o.dest
              /\ passed' = passed \o chunk
              /\ chunkLen' = n
    /\ lastRead' = "data"
    /\ UNCHANGED <<pc, exitCode, args, setup, fileCreated, buf, n_bytes, progress,
                   written, sha1_hasher, sha256_hasher, ret, result, printed,
                   interrupts, failures, sinkFailed>>

\* io::copy: the write fails; unwrap_or_else calls process::exit, which runs
\* no destructor, so the BufWriter is never flushed.
CopyDataWriteFail ==
    /\ pc = "copy"
    /\ \E n \in ReadLens :
         LET chunk == SubSeq(body, rd + 1, rd + n)
         IN \E o \in WriteAll(wbuf, dest, chunk) :
              /\ ~o.ok
              /\ rd' = rd + n
              /\ wbuf' = o.wbuf
              /\ dest' = o.dest
              /\ passed' = passed \o chunk
              /\ chunkLen' = n
    /\ sinkFailed' = TRUE
    /\ failures' = failures \cup {"write"}
    /\ lastRead' = "data"
    /\ Exit(EXIT_OUTPUT_FAILURE)
    /\ UNCHANGED <<args, setup, fileCreated, buf, n_bytes, progress, written,
                   sha1_hasher, sha256_hasher, ret, result, printed, interrupts>>

\* io::copy retries an interrupted read.
CopyInterrupted ==
    /\ pc = "copy"
    /\ lastRead' = "interrupted"
    /\ interrupts' = Min(interrupts + 1, MaxInterrupts)
    /\ UNCHANGED <<pc, exitCode, args, setup, fileCreated, rd, buf, wbuf, dest,
                   n_bytes, progress, written, sha1_hasher, sha256_hasher, ret,
                   result, printed, passed, chunkLen, failures, sinkFailed>>

\* io::copy: the read fails; process::exit without dropping the BufWriter.
CopyFatal ==
    /\ pc = "copy"
    /\ failures' = failures \cup {"read"}
    /\ lastRead' = "fatal"
    /\ Exit(EXIT_OUTPUT_FAILURE)
    /\ UNCHANGED <<args, setup, fileCreated, rd, buf, wbuf, dest, n_bytes,
                   progress, written, sha1_hasher, sha256_hasher, ret, result,
                   printed, passed, chunkLen, interrupts, sinkFailed>>

\* End of the else block: the BufWriter is dropped (flush_buf, the result
\* ignored) and main returns.
DropOk ==
    /\ pc = "drop_ok"
    /\ \E o \in FlushBuf(wbuf, dest) :
         /\ wbuf' = o.wbuf
         /\ dest' = o.dest
         /\ sinkFailed' = (sinkFailed \/ ~o.ok)
         /\ failures' = IF o.ok THEN failures ELSE failures \cup {"flush"}
    /\ Exit(0)
    /\ UNCHANGED <<args, setup, fileCreated, rd, buf, n_bytes, progress, written,
                   sha1_hasher, sha256_hasher, ret, result, printed, passed,
                   chunkLen, lastRead, interrupts>>

\* ------------------------------------------------------- specifications
\* Every step except an interrupted read.
Progress ==
    \/ HttpDownloadBuildFail
    \/ HttpDownloadBadUserAgent
    \/ HttpDownloadSendFail
    \/ HttpDownloadOk
    \/ FileCreateFail
    \/ FileCreateOk
    \/ ReadEof
    \/ ReadData
    \/ ReadDataWriteFail
    \/ ReadFatal
    \/ FlushOk
    \/ FlushFail
    \/ DropErr
    \/ StdoutBegin
    \/ CopyEof
    \/ CopyData
    \/ CopyDataWriteFail
    \/ CopyFatal
    \/ DropOk

Next ==
    \/ HttpDownloadBuildFail
    \/ HttpDownloadBadUserAgent
    \/ HttpDownloadSendFail
    \/ HttpDownloadOk
    \/ FileCreateFail
    \/ FileCreateOk
    \/ ReadEof
    \/ ReadData
    \/ ReadDataWriteFail
    \/ ReadInterrupted
    \/ ReadFatal
    \/ FlushOk
    \/ FlushFail
    \/ DropErr
    \/ StdoutBegin
    \/ CopyEof
    \/ CopyData
    \/ CopyDataWriteFail
    \/ CopyInterrupted
    \/ CopyFatal
    \/ DropOk

Spec == Init /\ [][Next]_vars

\* The source does not answer "interrupted" forever: a step other than an
\* interrupted read is eventually taken while one is possible.
LiveSpec == Init /\ [][Next]_vars /\ WF_vars(Progress)

\* ---------------------------------------------------------------- claims
\* What a single pass over the whole body yields.
WholeResult ==
    [bytes_written |-> Len(body), sha1 |-> Sha1Hex(body), sha256 |-> Sha256Hex(body)]

\* C1 (as stated): at every point of a transfer, the write-error return
\* included, bytes_written equals the number of bytes passed to the sink's
\* write operation and the number fed to each hash accumulator.
C1_Original ==
    fileCreated =>
        /\ written = Len(passed)
        /\ written = Len(sha1_hasher)
        /\ written = Len(sha256_hasher)

\* C1 (amended): at every iteration boundary and at the return of a result
\* or of a read error the three counts agree; at a write-error return the
\* hash counts still equal bytes_written, while the failing chunk has been
\* passed to the sink's write operation and is not counted.
C1_Amended ==
    fileCreated =>
        /\ written = Len(sha1_hasher)
        /\ written = Len(sha256_hasher)
        /\ progress = written
        /\ ret # "write_err" => written = Len(passed)
        /\ ret = "write_err" => (chunkLen > 0 /\ Len(passed) = written + chunkLen)

\* A write error after an earlier chunk succeeded, part of the failing chunk
\* having reached the destination.
C1_Witness == ret = "write_err" /\ written > 0 /\ Len(dest) > written

\* C2: when download_with_progress returns a result, bytes_written is the
\* body's length and the bytes passed to the sink and fed to each hash
\* accumulator are exactly the body, in order, whatever the chunking.
C2_ChunkingIndependent ==
    ret = "ok" =>
        /\ result.bytes_written = Len(body)
        /\ passed = body
        /\ dest \o wbuf = body
        /\ result.sha1 = Sha1Hex(body)
        /\ result.sha256 = Sha256Hex(body)

\* A body longer than the buffer, delivered with a one-byte last chunk.
C2_Witness == ret = "ok" /\ Len(body) > BufSize /\ chunkLen = 1

\* C3: an interrupted read is retried and changes neither the counter, the
\* hash accumulators, the progress accumulator nor the sink; the result of
\* a run with interrupted reads is the result of the uninterrupted run.
C3_InterruptedRetry ==
    /\ [][(pc = "loop" /\ lastRead' = "interrupted") =>
            /\ pc' = "loop"
            /\ UNCHANGED <<written, sha1_hasher, sha256_hasher, progress, wbuf,
                           dest, passed, rd, buf, ret, result>>]_vars
    /\ [](ret = "ok" => result = WholeResult)

\* An interrupted read in mid-stream.
C3_Witness ==
    pc = "loop" /\ lastRead = "interrupted" /\ written > 0 /\ rd < Len(body)

\* C4: every request-setup failure (illegal user-agent value, client
\* construction failure, send failure) ends the run with exit code 1.
C4_SetupFailureExitsOne ==
    (pc = "exited" /\ setup # "ok") => exitCode = EXIT_URL_FAILURE

\* C5: after a response was obtained, every failure of sink creation, of a
\* read, of a write or of the flush ends the run with exit code 2, and exit
\* code 0 is reached only when none of them failed.
C5_TransferFailureExitsTwo ==
    (pc = "exited" /\ setup = "ok") =>
        /\ failures # {} => exitCode = EXIT_OUTPUT_FAILURE
        /\ exitCode = 0 => failures = {}

\* C6: the process never exits with code 0 while bytes accepted by the
\* buffered writer have not reached the destination.
C6_FlushBeforeSuccess ==
    (pc = "exited" /\ exitCode = 0) => (wbuf = <<>> /\ dest = passed)

\* C7: on every exit path the bytes handed to the buffered writer have been
\* flushed to the destination (stated for the runs in which the destination
\* itself never refused a write).
C7_FlushedOnEveryExit ==
    (pc = "exited" /\ ~sinkFailed) => (wbuf = <<>> /\ dest = passed)

C9_ErrorReturn ==
    /\ [](ret \in {"read_err", "write_err"} =>
            /\ result = NoResult
            /\ ~printed
            /\ written = Len(sha1_hasher)
            /\ written = Len(sha256_hasher)
            /\ IsPrefix(SubSeq(body, 1, written), dest \o wbuf)
            /\ (pc = "exited" /\ ~sinkFailed) => dest = SubSeq(body, 1, written))
    /\ [][(pc = "loop" /\ ret' \in {"read_err", "write_err"}) =>
            /\ pc' # "loop"
            /\ UNCHANGED <<written, sha1_hasher, sha256_hasher, progress, result>>]_vars
    /\ [][fileCreated => (fileCreated' /\ IsPrefix(dest, dest'))]_vars

\* A read error after some bytes were written, the process having exited.
C9_Witness ==
    pc = "exited" /\ ret = "read_err" /\ written > 0 /\ Len(dest) = written

\* C10: a result is returned only by a read of zero bytes; the loop is left
\* in every run in which the source does not answer "interrupted" forever;
\* an interrupted read is always possible in the loop and keeps it running.
C10_Termination ==
    /\ [](ret = "ok" => lastRead = "eof")
    /\ (pc = "loop") ~> (pc # "loop")
    /\ [](pc = "loop" => ENABLED ReadInterrupted)
    /\ [][(pc = "loop" /\ lastRead' = "interrupted") =>
            UNCHANGED <<pc, rd, written, ret, result>>]_vars

\* A result returned after interrupted reads.
C10_Witness ==
    ret = "ok" /\ lastRead = "eof" /\ interrupts >= MaxInterrupts /\ Len(body) > 0

====
